---- MODULE Spec2Model ----
(***************************************************************************)
(* The Cal.com webhook route handler (POST) and storeBooking: signature    *)
(* verification, JSON parsing, dispatch on triggerEvent and the calls made *)
(* to createLocalBooking, refundStripePaymentIntent, createAnalyticsEvent. *)
(* Optional values (a header, a JSON property) are sequences of length 0   *)
(* (absent / undefined) or 1 (present).                                    *)
(***************************************************************************)
EXTENDS Integers, Sequences, FiniteSets, TLC

(* ---------------------------------------------------------------- bounds *)
\* Number of webhook deliveries handled in one behaviour.
MaxRequests == 2
\* Largest booking length (minutes) a payload carries.
MaxDuration == 1

(* ------------------------------------------------------------- constants *)
\* Length of the hex encoding of a SHA-256 digest.
DigestHexLen == 64
\* Milliseconds per minute, the factor of `length * 60000`.
MsPerMinute == 60000

None == <<>>
Some(v) == <<v>>
IsSome(o) == Len(o) = 1
Get(o) == o[1]

\* env.CALCOM_WEBHOOK_SECRET and a key the provider does not hold.
CALCOM_WEBHOOK_SECRET == "whsec_configured"
OtherKey == "whsec_other"

(* ------------------------------------------------------------ JSON input *)
EventKinds ==
  { "BOOKING_CREATED", "AFTER_HOSTS_CAL_VIDEO_NO_SHOW",
    "RECORDING_TRANSCRIPTION_GENERATED", "RECORDING_READY", "MEETING_STARTED",
    "MEETING_ENDED", "BOOKING_CANCELED", "SOME_OTHER_EVENT" }

\* ISO-8601 strings a payload's startTime may hold.
StartTimes == { "1970-01-01T00:00:01.500Z", "1970-01-01T01:00:00.000+01:00" }

Metadatas ==
  [ paymentId : {None, Some("pi_1")},
    mentorUserId : {None, Some("mentor_1")},
    actorUserId : {None, Some("actor_1")} ]

Attendee == [name |-> "Ada", email |-> "ada@example.org"]

Payloads ==
  [ metadata : {None} \cup {Some(m) : m \in Metadatas},
    attendees : {None, Some(<<>>), Some(<<Attendee>>)},
    startTime : {None} \cup {Some(t) : t \in StartTimes},
    length : {None} \cup {Some(d) : d \in 0..MaxDuration} ]

\* A request body: text that is not JSON, the JSON text of null, of a number,
\* or of an object with optional triggerEvent and payload properties.
MalformedText == [syntax |-> "malformed", triggerEvent |-> None, payload |-> None]
NullText == [syntax |-> "null", triggerEvent |-> None, payload |-> None]
NumberText == [syntax |-> "number", triggerEvent |-> None, payload |-> None]
ObjectTexts ==
  [ syntax : {"object"},
    triggerEvent : {None} \cup {Some(k) : k \in EventKinds},
    payload : {None} \cup {Some(p) : p \in Payloads} ]
BodyTexts == {MalformedText, NullText, NumberText} \cup ObjectTexts

(* ------------------------------------------------------------- signature *)
\* A header string: its byte length and, for a hex digest, what was signed.
EmptyString == [bytes |-> 0, key |-> "", msg |-> None]

\* crypto.createHmac('sha256', key).update(text).digest('hex')
HmacSha256Hex(key, text) == [bytes |-> DigestHexLen, key |-> key, msg |-> Some(text)]

\* The first half of a string.
Truncated(s) == [s EXCEPT !.bytes = s.bytes \div 2]

\* Values of the x-cal-signature-256 header sent with body text b.
SignatureHeaders(b) ==
  { None,
    Some(HmacSha256Hex(CALCOM_WEBHOOK_SECRET, b)),
    Some(HmacSha256Hex(OtherKey, b)),
    Some(HmacSha256Hex(CALCOM_WEBHOOK_SECRET, NumberText)),
    Some(Truncated(HmacSha256Hex(CALCOM_WEBHOOK_SECRET, b))) }

Requests ==
  UNION { { [signature |-> s, bodyText |-> b] : s \in SignatureHeaders(b) } : b \in BodyTexts }

(* ------------------------------------------------------- pure functions *)
\* crypto.timingSafeEqual on the UTF-8 bytes of two strings: a RangeError when
\* the byte lengths differ, else whether the bytes are equal.
timingSafeEqual(a, b) ==
  IF a.bytes # b.bytes THEN "RangeError"
  ELSE IF a = b THEN "equal" ELSE "different"

\* req.headers.get('x-cal-signature-256') ?? ''
signatureOf(r) == IF IsSome(r.signature) THEN Get(r.signature) ELSE EmptyString

\* Variant: the comparison's result is not acted on.
verifySignatureSkipped(r) == "ok"

\* The signature check of POST: "ok", "mismatch" (the 400 branch) or
\* "RangeError" (timingSafeEqual throws, outside any try block).
verifySignature(r) ==
  LET expectedSignature == HmacSha256Hex(CALCOM_WEBHOOK_SECRET, r.bodyText)
      cmp == timingSafeEqual(expectedSignature, signatureOf(r))
  IN  IF cmp = "RangeError" THEN "RangeError"
      ELSE IF cmp = "equal" THEN "ok" ELSE "mismatch"

\* Variant: text that is not JSON reads as an empty object.
JSONParseLenient(text) ==
  [ok |-> TRUE, kind |-> IF text.syntax = "malformed" THEN "object" ELSE text.syntax,
   triggerEvent |-> text.triggerEvent, payload |-> text.payload]

\* JSON.parse(bodyText): a SyntaxError, or the value the text denotes.
JSONParse(text) ==
  IF text.syntax = "malformed"
  THEN [ok |-> FALSE, kind |-> "none", triggerEvent |-> None, payload |-> None]
  ELSE [ok |-> TRUE, kind |-> text.syntax,
        triggerEvent |-> text.triggerEvent, payload |-> text.payload]

\* new Date(isoString).getTime(): milliseconds since the epoch.
DateParse(s) ==
  CASE s = "1970-01-01T00:00:01.500Z" -> 1500
    [] s = "1970-01-01T01:00:00.000+01:00" -> 0

\* JavaScript truthiness of an optional string.
Truthy(o) == IsSome(o) /\ Get(o) # ""

Response(status, body) == [status |-> status, body |-> body]

(* ------------------------------------------------------------- dispatch *)
\* What one synchronous stretch of the handler does: where it goes next, the
\* response it returns (if any) and the collaborator calls it starts.
Step(next, resp, started) == [pc |-> next, response |-> resp, calls |-> started]
Call(fn, args) == [fn |-> fn, args |-> args]

\* payload.metadata.<x> can be read: payload and payload.metadata are objects.
HasMetadata(payload) == IsSome(payload) /\ IsSome(Get(payload).metadata)

\* The catch block of POST's try around the switch.
caughtByPOST == Step("done", Some(Response(500, "Failed to process webhook")), <<>>)

\* Variant: the refund is requested without testing paymentId.
noShowUnchecked(payload) ==
  IF ~HasMetadata(payload) THEN caughtByPOST
  ELSE LET metadata == Get(Get(payload).metadata) IN
       Step("awaitRefund", None,
            <<Call("refundStripePaymentIntent",
                   [paymentId |-> IF IsSome(metadata.paymentId)
                                  THEN Get(metadata.paymentId) ELSE ""])>>)

\* case 'AFTER_HOSTS_CAL_VIDEO_NO_SHOW'
noShow(payload) ==
  IF ~HasMetadata(payload) THEN caughtByPOST
  ELSE LET metadata == Get(Get(payload).metadata) IN
       IF ~Truthy(metadata.paymentId)
       THEN Step("done", Some(Response(400, "Missing paymentId")), <<>>)
       ELSE Step("awaitRefund", None,
                 <<Call("refundStripePaymentIntent",
                        [paymentId |-> Get(metadata.paymentId)])>>)

\* Variant: the analytics event is emitted without testing mentorUserId.
meetingEndedAlways(payload) ==
  IF ~HasMetadata(payload) THEN caughtByPOST
  ELSE LET metadata == Get(Get(payload).metadata) IN
       Step("awaitAnalytics", None,
            <<Call("createAnalyticsEvent",
                   [eventType |-> "COMPLETED_BOOKING",
                    targetUserId |-> IF IsSome(metadata.mentorUserId)
                                     THEN Get(metadata.mentorUserId) ELSE "",
                    actorUserId |-> metadata.actorUserId])>>)

\* case 'MEETING_ENDED'
meetingEnded(payload) ==
  IF ~HasMetadata(payload) THEN caughtByPOST
  ELSE LET metadata == Get(Get(payload).metadata) IN
       IF Truthy(metadata.mentorUserId)
       THEN Step("awaitAnalytics", None,
                 <<Call("createAnalyticsEvent",
                        [eventType |-> "COMPLETED_BOOKING",
                         targetUserId |-> Get(metadata.mentorUserId),
                         actorUserId |-> metadata.actorUserId])>>)
       ELSE Step("done", Some(Response(200, "received")), <<>>)

\* The switch on triggerEvent.
dispatch(triggerEvent, payload) ==
  CASE triggerEvent = Some("BOOKING_CREATED") -> Step("storeBooking", None, <<>>)
    [] triggerEvent = Some("AFTER_HOSTS_CAL_VIDEO_NO_SHOW") -> noShow(payload)
    [] triggerEvent = Some("MEETING_ENDED") -> meetingEnded(payload)
    [] OTHER -> Step("done", Some(Response(200, "received")), <<>>)

(* --------------------------------------------------------- storeBooking *)
\* CalcomBookingPayloadSchema.safeParse: the payload is an object that has its
\* required properties, with at least one attendee.
safeParse(payload) ==
  IF /\ IsSome(payload)
     /\ IsSome(Get(payload).metadata)
     /\ IsSome(Get(payload).attendees)
     /\ Len(Get(Get(payload).attendees)) >= 1
     /\ IsSome(Get(payload).startTime)
     /\ IsSome(Get(payload).length)
  THEN [success |-> TRUE, data |-> payload]
  ELSE [success |-> FALSE, data |-> None]

\* Variant: the length is taken as seconds.
endTimeOfSeconds(start, length) == start + length * 1000

\* new Date(start.getTime() + length * 60000).getTime()
endTimeOf(start, length) == start + length * MsPerMinute

\* The argument of createLocalBooking, built from validation.data.
localBooking(data) ==
  LET start == DateParse(Get(data.startTime))
      length == Get(data.length)
      metadata == Get(data.metadata)
  IN  [ startTime |-> start,
        duration |-> length,
        endTime |-> endTimeOf(start, length),
        organizerUserId |-> metadata.mentorUserId,
        attendee |-> Head(Get(data.attendees)) ]

\* The catch block of storeBooking.
caughtByStoreBooking == Step("done", Some(Response(500, "Failed to process booking")), <<>>)

\* Variant: the payload is stored whether or not validation succeeded.
storeBookingUnvalidated(payload) ==
  IF safeParse(payload).success
  THEN Step("awaitCreateLocalBooking", None,
            <<Call("createLocalBooking", localBooking(Get(payload)))>>)
  ELSE Step("awaitCreateLocalBooking", None,
            <<Call("createLocalBooking",
                   [startTime |-> 0, duration |-> 0, endTime |-> 0,
                    organizerUserId |-> None, attendee |-> Attendee])>>)

\* storeBooking up to its await of createLocalBooking.
storeBooking(payload) ==
  LET validation == safeParse(payload) IN
  IF ~validation.success
  THEN Step("done", Some(Response(400, "Invalid booking payload")), <<>>)
  ELSE LET data == Get(validation.data) IN
       IF Get(data.attendees) = <<>> \/ ~IsSome(data.metadata)
       THEN caughtByStoreBooking
       ELSE Step("awaitCreateLocalBooking", None,
                 <<Call("createLocalBooking", localBooking(data))>>)

\* The response once an awaited collaborator call resolves.
resolved(fn) ==
  IF fn = "createLocalBooking" THEN Response(201, "booking")
  ELSE Response(200, "received")

\* Variant: every failure is answered by the outer catch block.
rejectedGeneric(fn) == Response(500, "Failed to process webhook")

\* The response once an awaited collaborator call rejects: each call's
\* enclosing catch block.
rejected(fn) ==
  CASE fn = "createLocalBooking" -> Response(500, "Failed to process booking")
    [] fn = "refundStripePaymentIntent" -> Response(500, "Failed to process refund")
    [] fn = "createAnalyticsEvent" -> Response(500, "Failed to process webhook")

(* ---------------------------------------------------------------- state *)
VARIABLES
  pc,          \* where the handler of the current request stands
  req,         \* the request being handled
  event,       \* { triggerEvent, payload } once the body is parsed
  response,    \* the Response the handler returned, if it returned one
  thrown,      \* the exception that left the handler, if one did
  trace,       \* the steps the handler took for this request, in order
  calls,       \* the collaborator calls made for this request, in order
  outcomes,    \* how each of those calls settled ("resolved" / "rejected")
  nRequests,   \* requests received so far
  nBookings,   \* of which signed, schema-valid BOOKING_CREATED deliveries
  nPersist,    \* createLocalBooking calls made so far, all requests
  redelivery   \* the current request repeats the previous one

vars ==
  << pc, req, event, response, thrown, trace, calls, outcomes,
     nRequests, nBookings, nPersist, redelivery >>

NoEvent == [triggerEvent |-> None, payload |-> None]

\* A delivery signed by the provider that carries a BOOKING_CREATED event
\* whose payload the schema accepts.
ValidBookingDelivery(r) ==
  /\ r.signature = Some(HmacSha256Hex(CALCOM_WEBHOOK_SECRET, r.bodyText))
  /\ r.bodyText.syntax = "object"
  /\ r.bodyText.triggerEvent = Some("BOOKING_CREATED")
  /\ safeParse(r.bodyText.payload).success

Init ==
  /\ pc = "idle"
  /\ req = [signature |-> None, bodyText |-> MalformedText]
  /\ event = NoEvent
  /\ response = None
  /\ thrown = None
  /\ trace = <<>>
  /\ calls = <<>>
  /\ outcomes = <<>>
  /\ nRequests = 0
  /\ nBookings = 0
  /\ nPersist = 0
  /\ redelivery = FALSE

\* A request r arrives and POST(r) starts.
Start(r, again) ==
  /\ nRequests < MaxRequests
  /\ pc' = "verify"
  /\ req' = r
  /\ event' = NoEvent
  /\ response' = None
  /\ thrown' = None
  /\ trace' = <<>>
  /\ calls' = <<>>
  /\ outcomes' = <<>>
  /\ nRequests' = nRequests + 1
  /\ nBookings' = nBookings + (IF ValidBookingDelivery(r) THEN 1 ELSE 0)
  /\ redelivery' = again
  /\ UNCHANGED nPersist

Receive == pc = "idle" /\ \E r \in Requests : Start(r, FALSE)

\* The provider sends the previous request once more.
Redeliver == pc = "done" /\ Start(req, TRUE)

\* The request is over: nothing of it stays in the handler.
Complete ==
  /\ pc = "done"
  /\ pc' = "idle"
  /\ req' = [signature |-> None, bodyText |-> MalformedText]
  /\ event' = NoEvent
  /\ response' = None
  /\ thrown' = None
  /\ trace' = <<>>
  /\ calls' = <<>>
  /\ outcomes' = <<>>
  /\ redelivery' = FALSE
  /\ UNCHANGED <<nRequests, nBookings, nPersist>>

\* One synchronous stretch of the handler ends as st says.
Take(st, label) ==
  /\ pc' = st.pc
  /\ response' = st.response
  /\ trace' = Append(trace, label)
  /\ calls' = calls \o st.calls
  /\ nPersist' = nPersist
       + Cardinality({i \in DOMAIN st.calls : st.calls[i].fn = "createLocalBooking"})

\* Lines 40-54: read header and body, compute the HMAC, compare.
VerifySignature ==
  /\ pc = "verify"
  /\ LET v == verifySignature(req) IN
     /\ thrown' = IF v = "RangeError" THEN Some("RangeError") ELSE None
     /\ Take(Step(IF v = "ok" THEN "parse" ELSE "done",
                  IF v = "mismatch" THEN Some(Response(400, "Invalid signature")) ELSE None,
                  <<>>),
             "verifySignature")
  /\ UNCHANGED <<req, event, outcomes, nRequests, nBookings, redelivery>>

\* Lines 56-70: JSON.parse in its try block, then the reads of
\* event.triggerEvent and event.payload, which are outside any try block.
ParseBody ==
  /\ pc = "parse"
  /\ LET parsed == JSONParse(req.bodyText) IN
     /\ thrown' = IF parsed.ok /\ parsed.kind = "null" THEN Some("TypeError") ELSE None
     /\ event' = IF parsed.ok /\ parsed.kind # "null"
                 THEN [triggerEvent |-> parsed.triggerEvent, payload |-> parsed.payload]
                 ELSE NoEvent
     /\ Take(Step(IF parsed.ok /\ parsed.kind # "null" THEN "dispatch" ELSE "done",
                  IF ~parsed.ok THEN Some(Response(400, "Invalid payload")) ELSE None,
                  <<>>),
             "JSON.parse")
  /\ UNCHANGED <<req, outcomes, nRequests, nBookings, redelivery>>

\* Lines 72-133: the switch, up to the first await or to the response.
Dispatch ==
  /\ pc = "dispatch"
  /\ Take(dispatch(event.triggerEvent, event.payload), "dispatch")
  /\ UNCHANGED <<req, event, thrown, outcomes, nRequests, nBookings, redelivery>>

\* Lines 136-185: storeBooking up to its await.
StoreBooking ==
  /\ pc = "storeBooking"
  /\ Take(storeBooking(event.payload), "storeBooking")
  /\ UNCHANGED <<req, event, thrown, outcomes, nRequests, nBookings, redelivery>>

Awaiting == {"awaitCreateLocalBooking", "awaitRefund", "awaitAnalytics"}

\* The awaited collaborator call settles and the handler responds.
Settle(at, how) ==
  /\ pc = at
  /\ outcomes' = Append(outcomes, how)
  /\ Take(Step("done",
               Some(IF how = "resolved" THEN resolved(calls[Len(calls)].fn)
                    ELSE rejected(calls[Len(calls)].fn)),
               <<>>),
          how)
  /\ UNCHANGED <<req, event, thrown, nRequests, nBookings, redelivery>>

\* Variant: a failed createLocalBooking call is made again.
CreateLocalBookingRetries ==
  /\ pc = "awaitCreateLocalBooking"
  /\ outcomes' = Append(outcomes, "rejected")
  /\ Take(Step("awaitCreateLocalBooking", None, <<calls[Len(calls)]>>), "rejected")
  /\ UNCHANGED <<req, event, thrown, nRequests, nBookings, redelivery>>

CreateLocalBookingResolves == Settle("awaitCreateLocalBooking", "resolved")
CreateLocalBookingRejects == Settle("awaitCreateLocalBooking", "rejected")
RefundResolves == Settle("awaitRefund", "resolved")
RefundRejects == Settle("awaitRefund", "rejected")
AnalyticsResolves == Settle("awaitAnalytics", "resolved")
AnalyticsRejects == Settle("awaitAnalytics", "rejected")

Next ==
  \/ Receive
  \/ Redeliver
  \/ Complete
  \/ VerifySignature
  \/ ParseBody
  \/ Dispatch
  \/ StoreBooking
  \/ CreateLocalBookingResolves
  \/ CreateLocalBookingRejects
  \/ RefundResolves
  \/ RefundRejects
  \/ AnalyticsResolves
  \/ AnalyticsRejects

Spec == Init /\ [][Next]_vars

(* ---------------------------------------------------------- properties *)
Done == pc = "done"

\* The header value equals the hex HMAC of the raw body under the secret.
SignatureMatches(r) ==
  signatureOf(r) = HmacSha256Hex(CALCOM_WEBHOOK_SECRET, r.bodyText)

Called(fn) == {i \in DOMAIN calls : calls[i].fn = fn}
Took(label) == \E i \in DOMAIN trace : trace[i] = label
Position(label) == CHOOSE i \in DOMAIN trace : trace[i] = label

\* C1: every request whose signature header does not equal the hex HMAC of
\* the raw body (an absent header and a header of another length included)
\* is answered with status 400 and an error body.
C1_MismatchAnswered400 ==
  (Done /\ ~SignatureMatches(req)) => response = Some(Response(400, "Invalid signature"))

\* C2: the signature is verified before the body is parsed and before any
\* collaborator is called; for a request whose signature does not match, the
\* body is never parsed and no collaborator is ever called, whatever the
\* body's event kind and however the request ends.
C2_VerifyBeforeParseAndCalls ==
  /\ trace # <<>> => trace[1] = "verifySignature"
  /\ Took("JSON.parse") => Position("verifySignature") < Position("JSON.parse")
  /\ calls # <<>> => Took("verifySignature")
  /\ (pc # "idle" /\ ~SignatureMatches(req)) =>
       /\ calls = <<>>
       /\ ~Took("JSON.parse")
       /\ event = NoEvent
       /\ pc \in {"verify", "done"}

C2_Witness ==
  /\ Done
  /\ ~SignatureMatches(req)
  /\ IsSome(req.signature)
  /\ req.bodyText.triggerEvent = Some("BOOKING_CREATED")
  /\ safeParse(req.bodyText.payload).success
  /\ response = Some(Response(400, "Invalid signature"))

\* C3: a booking is persisted only if the payload passes schema validation:
\* a BOOKING_CREATED event whose payload fails validation is answered 400 and
\* createLocalBooking is never called for it.
C3_InvalidBookingNotPersisted ==
  /\ Called("createLocalBooking") # {} => safeParse(event.payload).success
  /\ (event.triggerEvent = Some("BOOKING_CREATED") /\ ~safeParse(event.payload).success) =>
       /\ calls = <<>>
       /\ pc \in {"dispatch", "storeBooking", "done"}
       /\ Done => response = Some(Response(400, "Invalid booking payload"))

C3_Witness ==
  /\ Done
  /\ event.triggerEvent = Some("BOOKING_CREATED")
  /\ IsSome(event.payload)
  /\ Get(event.payload).attendees = None
  /\ IsSome(Get(event.payload).metadata)
  /\ IsSome(Get(event.payload).startTime)
  /\ IsSome(Get(event.payload).length)
  /\ Took("storeBooking")
  /\ response = Some(Response(400, "Invalid booking payload"))

\* C4: every request ends with the handler returning a response whose status
\* is 200, 201, 400 or 500, and no exception leaves the handler.
C4_AlwaysResponds ==
  Done =>
    /\ thrown = None
    /\ IsSome(response)
    /\ Get(response).status \in {200, 201, 400, 500}

\* C5: a request with a valid signature whose body is not JSON is answered
\* 400 and nothing is dispatched: no event-kind branch runs and no
\* collaborator is called.
C5_UnparsableAnswered400 ==
  (pc # "idle" /\ SignatureMatches(req) /\ req.bodyText.syntax = "malformed") =>
    /\ calls = <<>>
    /\ ~Took("dispatch") /\ ~Took("storeBooking")
    /\ pc \in {"verify", "parse", "done"}
    /\ Done => response = Some(Response(400, "Invalid payload"))

C5_Witness ==
  /\ Done
  /\ SignatureMatches(req)
  /\ req.bodyText.syntax = "malformed"
  /\ Took("JSON.parse")
  /\ response = Some(Response(400, "Invalid payload"))

NoShowEvent == event.triggerEvent = Some("AFTER_HOSTS_CAL_VIDEO_NO_SHOW")

\* C6: an AFTER_HOSTS_CAL_VIDEO_NO_SHOW event whose metadata lacks a payment
\* id is answered 400 and refundStripePaymentIntent is never called; a refund
\* is requested only when a payment id is present, and for that id.
C6_NoRefundWithoutPaymentId ==
  /\ (NoShowEvent /\ HasMetadata(event.payload)
        /\ ~IsSome(Get(Get(event.payload).metadata).paymentId)) =>
       /\ calls = <<>>
       /\ pc \in {"dispatch", "done"}
       /\ Done => response = Some(Response(400, "Missing paymentId"))
  /\ \A i \in Called("refundStripePaymentIntent") :
       /\ NoShowEvent
       /\ HasMetadata(event.payload)
       /\ Get(Get(event.payload).metadata).paymentId = Some(calls[i].args.paymentId)

C6_Witness ==
  /\ Done
  /\ NoShowEvent
  /\ HasMetadata(event.payload)
  /\ ~IsSome(Get(Get(event.payload).metadata).paymentId)
  /\ Took("dispatch")
  /\ response = Some(Response(400, "Missing paymentId"))

\* C7: each signed, schema-valid BOOKING_CREATED delivery makes exactly one
\* createLocalBooking call (no retry, no skip); nothing is kept between
\* requests, so after n such deliveries, redeliveries included, exactly n
\* calls have been made; a delivery whose call succeeds is answered 201.
C7_OnePersistPerDelivery ==
  /\ Cardinality(Called("createLocalBooking")) <= 1
  /\ pc \in {"done", "idle"} => nPersist = nBookings
  /\ (Done /\ ValidBookingDelivery(req)) =>
       /\ Cardinality(Called("createLocalBooking")) = 1
       /\ Len(calls) = 1
       /\ Len(outcomes) = 1
       /\ outcomes = <<"resolved">> => response = Some(Response(201, "booking"))

C7_Witness ==
  /\ Done
  /\ redelivery
  /\ ValidBookingDelivery(req)
  /\ nBookings = 2
  /\ nPersist = 2
  /\ outcomes = <<"resolved">>
  /\ response = Some(Response(201, "booking"))

\* C8: when a collaborator call fails the response is 500, never 200 or 201:
\* 'Failed to process booking' for createLocalBooking, 'Failed to process
\* refund' for refundStripePaymentIntent, 'Failed to process webhook' for
\* createAnalyticsEvent.
C8_CollaboratorFailureIs500 ==
  (Done /\ outcomes # <<>> /\ outcomes[Len(outcomes)] = "rejected") =>
    LET fn == calls[Len(calls)].fn IN
    /\ fn = "createLocalBooking" =>
         response = Some(Response(500, "Failed to process booking"))
    /\ fn = "refundStripePaymentIntent" =>
         response = Some(Response(500, "Failed to process refund"))
    /\ fn = "createAnalyticsEvent" =>
         response = Some(Response(500, "Failed to process webhook"))

C8_Witness ==
  /\ Done
  /\ outcomes = <<"rejected">>
  /\ calls[1].fn = "refundStripePaymentIntent"
  /\ response = Some(Response(500, "Failed to process refund"))

MeetingEndedEvent == event.triggerEvent = Some("MEETING_ENDED")

\* C9: a MEETING_ENDED event whose metadata has a mentor user id emits
\* exactly one COMPLETED_BOOKING analytics event with that id as target and
\* the actor id if present (null otherwise); without a mentor user id none is
\* emitted, and no other event kind emits one.
C9_OneAnalyticsEventForMentor ==
  /\ \A i \in Called("createAnalyticsEvent") : MeetingEndedEvent
  /\ (MeetingEndedEvent /\ Took("dispatch")) =>
       IF HasMetadata(event.payload) /\ IsSome(Get(Get(event.payload).metadata).mentorUserId)
       THEN calls = << Call("createAnalyticsEvent",
                            [eventType |-> "COMPLETED_BOOKING",
                             targetUserId |-> Get(Get(Get(event.payload).metadata).mentorUserId),
                             actorUserId |-> Get(Get(event.payload).metadata).actorUserId]) >>
       ELSE calls = <<>>

C9_Witness ==
  /\ Done
  /\ MeetingEndedEvent
  /\ HasMetadata(event.payload)
  /\ Get(Get(event.payload).metadata).mentorUserId = Some("mentor_1")
  /\ Get(Get(event.payload).metadata).actorUserId = None
  /\ Len(calls) = 1
  /\ calls[1].args.targetUserId = "mentor_1"
  /\ response = Some(Response(200, "received"))

\* C10: for a BOOKING_CREATED event with a schema-valid payload of start time
\* T and duration D minutes, the record passed to createLocalBooking has
\* startTime T, duration D and endTime T + D * 60000 milliseconds.
C10_EndTimeIsStartPlusDuration ==
  \A i \in Called("createLocalBooking") :
    LET T == DateParse(Get(Get(event.payload).startTime))
        D == Get(Get(event.payload).length)
    IN  /\ calls[i].args.startTime = T
        /\ calls[i].args.duration = D
        /\ calls[i].args.endTime = T + D * 60000

C10_Witness ==
  /\ Done
  /\ Called("createLocalBooking") = {1}
  /\ Get(event.payload).startTime = Some("1970-01-01T00:00:01.500Z")
  /\ Get(event.payload).length = Some(1)
  /\ calls[1].args.endTime = 61500

====
